---------------------------- MODULE Spec2Model ----------------------------
(***************************************************************************)
(* Model of the taskmaster supervision engine: ProcessWorker               *)
(* (src/src/process/worker.py), ProcessMonitor (monitor.py),               *)
(* ProcessManager (manager.py), ProcessCommands (commands.py), and the     *)
(* dispatcher, the reload and the listeners of the daemon                  *)
(* (src/src/core/taskmasterd.py).                                          *)
(*                                                                         *)
(* The operating system is modelled by a process table `children` (one     *)
(* record per child ever spawned, indexed by pid) and a clock `now`.       *)
(* Python's None is the number NONE in integer-valued fields.              *)
(*                                                                         *)
(* Every operation runs to completion in one step, except in SpecThreads,  *)
(* where start and stop run statement by statement.  The notification sink *)
(* and the log sinks never raise, Popen.poll never raises OSError, and     *)
(* stop_time, which no operation reads, is not kept.                       *)
(***************************************************************************)
EXTENDS Integers, Sequences, FiniteSets, TLC

VARIABLES
    configFile,   \* the program table of the configuration file
    serverFile,   \* the server block of the configuration file, and whether
                  \* the file can be loaded
    listeners,    \* the transport listeners of the daemon
    up,           \* TRUE once ProcessManager.__init__ has run
    processes,    \* ProcessManager.processes: name -> worker record
    children,     \* OS process table: pid -> child record
    now,          \* the wall clock, in seconds
    last,         \* the last operation and its reply
    userStopped,  \* names whose last user command was a stop answered success
    wire,         \* a client's socket connection and the last request received
    daemon,       \* the daemon process and the pid-file
    pc            \* the operation each connection thread is in the middle of

vars == <<configFile, serverFile, listeners, up, processes, children, now,
          last, userStopped, wire, daemon, pc>>

\* what the operations of the supervision engine never touch
outer == <<wire, daemon, pc>>

---------------------------------------------------------------------------
(* Bounds *)

MaxTime == 2
MaxRetry == 2

\* the children spawned in a run with reloads
MaxSpawn == 3

---------------------------------------------------------------------------
(* Values *)

NONE == 999

SIGTERM == 15
SIGKILL == 9
SIGUSR1 == 10

\* getattr(signal, "SIG" + name) for the signal names the tables use
Signal(name) ==
    IF name = "TERM" THEN SIGTERM
    ELSE IF name = "KILL" THEN SIGKILL
    ELSE SIGUSR1

Names == {"a", "b"}

\* a reply without a "data" member
NoData == << >>

\* a name that is in no program table
Unknown == "zz"

\* the program name the dispatcher passes when the verb has no argument:
\* str(None)
NoArg == "None"

\* the order in which a program table (a dict) is iterated
Order == <<"a", "b">>

Statuses == {"stopped", "starting", "running", "stopping", "exited", "fatal"}

(* What a command line does once spawned:                                  *)
(*   sleep   runs until it is signalled                                    *)
(*   true    exits at once with code 0                                     *)
(*   false   exits at once with code 1                                     *)
(*   crash   exits with code 1 at any moment                               *)
(*   missing cannot be executed: Popen raises                              *)
Cmds == {"sleep", "true", "false", "crash", "missing"}

Immediate == {"true", "false"}

ExitOf(cmd) == IF cmd = "true" THEN 0 ELSE 1


---------------------------------------------------------------------------
(* Program specs and workers *)

\* subprocess.Popen handle: the pid and the returncode attribute
NoProcess == [pid |-> NONE, returncode |-> NONE]

Popen(p) == [pid |-> p, returncode |-> NONE]

\* ProcessWorker.__init__
ProcessWorker(name, config) ==
    [name          |-> name,
     config        |-> config,
     process       |-> NoProcess,
     start_time    |-> NONE,
     restart_count |-> 0,
     status        |-> "stopped",
     exit_code     |-> NONE,
     pid           |-> NONE,
     retry_count   |-> 0,
     stop_byuser   |-> FALSE]

\* a poll that never notices the exit of the child
poll_keeps_handle(h, os) == h

\* Popen.poll(): reaps the child if it has exited and returns the handle
poll(h, os) ==
    IF h.returncode # NONE THEN h
    ELSE IF os[h.pid].alive THEN h
    ELSE [h EXCEPT !.returncode = os[h.pid].code]

\* is_running that records the exit code of a dead child but keeps the status
is_running_keeps_status(w, os, t) ==
    IF w.process = NoProcess \/ w.pid = NONE
    THEN [w |-> w, ret |-> FALSE]
    ELSE LET start_duration == t - w.start_time
             h == poll(w.process, os)
         IN  IF h.returncode # NONE
             THEN [w |-> [w EXCEPT !.process = h,
                                   !.exit_code = h.returncode],
                   ret |-> FALSE]
             ELSE [w |-> IF w.status = "starting"
                            /\ start_duration >= w.config.startsecs
                         THEN [w EXCEPT !.status = "running"]
                         ELSE w,
                   ret |-> TRUE]

\* ProcessWorker.is_running at time t: the worker afterwards and the result
is_running(w, os, t) ==
    IF w.process = NoProcess \/ w.pid = NONE
    THEN [w |-> w, ret |-> FALSE]
    ELSE LET start_duration == t - w.start_time
             h == poll(w.process, os)
         IN  IF h.returncode # NONE
             THEN LET s1 == IF w.status # "fatal"
                               /\ start_duration < w.config.startsecs
                            THEN "fatal" ELSE w.status
                      s2 == IF s1 # "fatal" THEN "exited" ELSE s1
                  IN  [w |-> [w EXCEPT !.process = h,
                                       !.exit_code = h.returncode,
                                       !.status = s2],
                       ret |-> FALSE]
             ELSE [w |-> IF w.status = "starting"
                            /\ start_duration >= w.config.startsecs
                         THEN [w EXCEPT !.status = "running"]
                         ELSE w,
                   ret |-> TRUE]

(* is_running raises TypeError (datetime.now() - None): the handle and the *)
(* pid are set and start_time is not, which is the worker between two      *)
(* assignments of its first start().                                       *)
Raises(w) == w.process # NoProcess /\ w.pid # NONE /\ w.start_time = NONE

\* the child record the OS keeps for a spawned command
Child(w) ==
    [owner |-> w.name, cmd |-> w.config.cmd, alive |-> TRUE, code |-> NONE,
     signals |-> << >>]

\* start without the already-running check
start_unguarded(w, os, t) ==
    LET r == is_running([w EXCEPT !.stop_byuser = FALSE], os, t)
        w1 == [r.w EXCEPT !.retry_count = @ + 1]
        p == Len(os) + 1
    IN  IF w1.config.user = "unset"
        THEN [w |-> [w1 EXCEPT !.status = "fatal"], os |-> os,
              ret |-> FALSE, exc |-> TRUE]
        ELSE IF w1.config.user = "unknown"
        THEN [w |-> w1, os |-> os, ret |-> FALSE, exc |-> FALSE]
        ELSE IF w1.config.cmd = "missing"
        THEN [w |-> [w1 EXCEPT !.status = "fatal"], os |-> os,
              ret |-> FALSE, exc |-> FALSE]
        ELSE [w |-> [w1 EXCEPT !.process = Popen(p),
                               !.status = "starting",
                               !.pid = p,
                               !.start_time = t],
              os |-> Append(os, Child(w1)),
              ret |-> TRUE, exc |-> FALSE]

(* ProcessWorker.start at time t: worker, process table, result, and exc   *)
(* when an exception leaves start().  The user and group lookups are one   *)
(* field: "known" (both resolve), "unknown" (getpwnam/getgrnam raises      *)
(* KeyError: return False) and "unset" (the key holds the default None of  *)
(* the configuration parser: the lookup raises TypeError, the handler sets *)
(* fatal and then reads old_umask before it was assigned, which raises).   *)
(* A command that cannot be executed makes Popen raise: fatal, False.      *)
start(w, os, t) ==
    LET r == is_running([w EXCEPT !.stop_byuser = FALSE], os, t)
    IN  IF r.ret
        THEN [w |-> r.w, os |-> os, ret |-> FALSE, exc |-> FALSE]
        ELSE LET w1 == [r.w EXCEPT !.retry_count = @ + 1]
                 p == Len(os) + 1
             IN  IF w1.config.user = "unset"
                 THEN [w |-> [w1 EXCEPT !.status = "fatal"], os |-> os,
                       ret |-> FALSE, exc |-> TRUE]
                 ELSE IF w1.config.user = "unknown"
                 THEN [w |-> w1, os |-> os, ret |-> FALSE, exc |-> FALSE]
                 ELSE IF w1.config.cmd = "missing"
                 THEN [w |-> [w1 EXCEPT !.status = "fatal"],
                       os |-> os, ret |-> FALSE, exc |-> FALSE]
                 ELSE [w |-> [w1 EXCEPT !.process = Popen(p),
                                        !.status = "starting",
                                        !.pid = p,
                                        !.start_time = t],
                       os |-> Append(os, Child(w1)),
                       ret |-> TRUE, exc |-> FALSE]

\* ProcessWorker.restart (an exception of start() passes through)
restart(w, os, t) ==
    LET r == start(w, os, t)
    IN  IF r.ret
        THEN [r EXCEPT !.w.restart_count = @ + 1]
        ELSE r

\* os.kill: the signal is delivered to the child
Signalled(c, sig) == [c EXCEPT !.signals = Append(@, sig)]

\* os.kill followed by the child's death with returncode -sig
Killed(c, sig) ==
    [Signalled(c, sig) EXCEPT !.alive = FALSE, !.code = 0 - sig]

\* stop that sends SIGKILL at once, without the stop signal and the wait
stop_kill_first(w, os, resp, t) ==
    LET r == is_running([w EXCEPT !.stop_byuser = TRUE], os, t)
    IN  IF ~r.ret
        THEN [w |-> r.w, os |-> os, ret |-> TRUE, t |-> t]
        ELSE IF resp = "error"
        THEN [w |-> r.w, os |-> os, ret |-> FALSE, t |-> t]
        ELSE [w |-> [r.w EXCEPT !.process.returncode = 0 - SIGKILL,
                                !.status = "stopped"],
              os |-> [os EXCEPT ![r.w.pid] = Killed(@, SIGKILL)],
              ret |-> TRUE, t |-> t]

(* ProcessWorker.stop at time t.  resp is what the signalled child does:   *)
(* "exit" (dies of the stop signal within stoptsecs), "ignore" (survives   *)
(* stoptsecs and is killed) or "error" (the signalling raises an           *)
(* unexpected error before the signal is sent).  Between the stop signal   *)
(* and the end of the wait the status is stopping.                         *)
(* Returns worker, process table, result and the time at return.           *)
stop(w, os, resp, t) ==
    LET r == is_running([w EXCEPT !.stop_byuser = TRUE], os, t)
        stop_signal == Signal(w.config.stopsignal)
        t2 == t + w.config.stoptsecs
    IN  IF ~r.ret
        THEN [w |-> r.w, os |-> os, ret |-> TRUE, t |-> t]
        ELSE IF resp = "error"
        THEN [w |-> r.w, os |-> os, ret |-> FALSE, t |-> t]
        ELSE IF resp = "exit"
        THEN [w |-> [r.w EXCEPT !.process.returncode = 0 - stop_signal,
                                !.status = "stopped"],
              os |-> [os EXCEPT ![r.w.pid] = Killed(@, stop_signal)],
              ret |-> TRUE, t |-> t]
        ELSE [w |-> [r.w EXCEPT !.process.returncode = 0 - SIGKILL,
                                !.status = "stopped"],
              os |-> [os EXCEPT ![r.w.pid] =
                                   Killed(Signalled(@, stop_signal), SIGKILL)],
              ret |-> TRUE, t |-> t2]

\* ProcessWorker.should_autorestart
should_autorestart(w) ==
    IF w.stop_byuser THEN FALSE
    ELSE IF w.config.autorestart = "always" /\ w.retry_count < 5 THEN TRUE
    ELSE IF w.config.autorestart = "unexpected"
            /\ w.exit_code \notin w.config.exitcodes
            /\ w.retry_count - 1 < w.config.startretries THEN TRUE
    ELSE IF w.retry_count - 1 < w.config.startretries /\ w.status = "fatal"
         THEN TRUE
    ELSE FALSE

(* ProcessWorker.get_status: the dict literal reads status and pid, then   *)
(* _get_uptime calls is_running, then restarts and exitcode are read.      *)
get_status(w, os, t) ==
    LET r == IF w.start_time = NONE THEN [w |-> w, ret |-> FALSE]
             ELSE is_running(w, os, t)
    IN  [w |-> r.w,
         snap |-> [status |-> w.status, pid |-> w.pid,
                   restarts |-> r.w.restart_count,
                   exitcode |-> r.w.exit_code]]

---------------------------------------------------------------------------
(* Health monitor *)

\* handle_process_death with the restart on policy unexpected enabled for
\* every exit code
handle_process_death_unexpected(w, os, t) ==
    IF w.process # NoProcess
    THEN LET w1 == [w EXCEPT !.exit_code = w.process.returncode]
         IN  IF w1.config.autorestart \in {"always", "unexpected"}
             THEN LET r == restart(w1, os, t) IN [w |-> r.w, os |-> r.os]
             ELSE [w |-> [w1 EXCEPT !.status = "stopped"], os |-> os]
    ELSE [w |-> w, os |-> os]

\* ProcessMonitor.handle_process_death; an exception of restart() is caught
\* by check_process, the changes made before it stay
handle_process_death(w, os, t) ==
    IF w.process # NoProcess
    THEN LET w1 == [w EXCEPT !.exit_code = w.process.returncode]
         IN  IF w1.config.autorestart = "always"
             THEN LET r == restart(w1, os, t) IN [w |-> r.w, os |-> r.os]
             ELSE [w |-> [w1 EXCEPT !.status = "stopped"], os |-> os]
    ELSE [w |-> w, os |-> os]

\* check_process that reports a live child running whatever its uptime
check_process_eager(w, os, t) ==
    LET r == is_running(w, os, t)
    IN  IF Raises(w) THEN [w |-> w, os |-> os]
        ELSE IF r.ret
        THEN [w |-> [r.w EXCEPT !.status = "running"], os |-> os]
        ELSE IF r.w.status \notin {"stopped", "stopping", "killed"}
        THEN handle_process_death(r.w, os, t)
        ELSE [w |-> r.w, os |-> os]

\* ProcessMonitor.check_process; an exception of is_running is caught
check_process(w, os, t) ==
    LET r == is_running(w, os, t)
    IN  IF Raises(w) THEN [w |-> w, os |-> os]
        ELSE IF r.ret
        THEN [w |-> IF t - r.w.start_time >= r.w.config.startsecs
                    THEN [r.w EXCEPT !.status = "running"]
                    ELSE r.w,
              os |-> os]
        ELSE IF r.w.status \notin {"stopped", "stopping", "killed"}
        THEN handle_process_death(r.w, os, t)
        ELSE [w |-> r.w, os |-> os]

\* the names of a program table in iteration order
RECURSIVE KeysFrom(_, _)
KeysFrom(table, i) ==
    IF i > Len(Order) THEN <<>>
    ELSE IF Order[i] \in DOMAIN table
    THEN <<Order[i]>> \o KeysFrom(table, i + 1)
    ELSE KeysFrom(table, i + 1)

Keys(table) == KeysFrom(table, 1)

\* ProcessMonitor.check_all over the workers keys[i..]: table and OS
RECURSIVE check_all(_, _, _, _, _)
check_all(procs, os, keys, i, t) ==
    IF i > Len(keys) THEN [procs |-> procs, os |-> os]
    ELSE LET r == check_process(procs[keys[i]], os, t)
         IN  check_all([procs EXCEPT ![keys[i]] = r.w], r.os, keys, i + 1, t)

---------------------------------------------------------------------------
(* Process manager *)

\* ProcessManager.load_programs
load_programs(programs) ==
    [n \in DOMAIN programs |-> ProcessWorker(n, programs[n])]

\* ProcessManager.start_all_autostart over the workers keys[i..]; an
\* exception of start() ends the loop and leaves the method
RECURSIVE start_all_autostart(_, _, _, _, _)
start_all_autostart(procs, os, keys, i, t) ==
    IF i > Len(keys) THEN [procs |-> procs, os |-> os, exc |-> FALSE]
    ELSE IF procs[keys[i]].config.autostart
    THEN LET r == start(procs[keys[i]], os, t)
         IN  IF r.exc
             THEN [procs |-> [procs EXCEPT ![keys[i]] = r.w], os |-> r.os,
                   exc |-> TRUE]
             ELSE start_all_autostart([procs EXCEPT ![keys[i]] = r.w], r.os,
                                      keys, i + 1, t)
    ELSE start_all_autostart(procs, os, keys, i + 1, t)

\* ProcessManager.program_exists
program_exists(procs, n) == n \in DOMAIN procs

\* ProcessManager.get_all_status over the workers keys[i..]
RECURSIVE get_all_status(_, _, _, _, _)
get_all_status(procs, os, keys, i, t) ==
    IF i > Len(keys)
    THEN [procs |-> procs, data |-> [n \in {} |-> NoData]]
    ELSE LET r == get_status(procs[keys[i]], os, t)
             g == get_all_status([procs EXCEPT ![keys[i]] = r.w], os, keys,
                                 i + 1, t)
         IN  [procs |-> g.procs,
              data |-> [n \in DOMAIN g.data \cup {keys[i]} |->
                          IF n = keys[i] THEN r.snap ELSE g.data[n]]]

---------------------------------------------------------------------------
(* Replies of ProcessCommands: the verb, the program, the status field     *)
(* ("success" or "error") and the data member (snapshots), if any.         *)

\* a reply whose status is success whatever the result
Reply_always_success(op, n, ok) ==
    [op |-> op, name |-> n, status |-> "success", data |-> NoData]

Reply(op, n, ok) ==
    [op |-> op, name |-> n, status |-> IF ok THEN "success" ELSE "error",
     data |-> NoData]

(* What the connection gets when the dispatcher call does not end with a   *)
(* reply dict: "null" (process_command returned None, sent as JSON null),  *)
(* "http500" (an exception reached the HTTP handler) or "blocked" (the     *)
(* call never returns, nothing is sent).                                   *)
Outcome(op, n, st) == [Reply(op, n, FALSE) EXCEPT !.status = st]

\* a reply with a "data" member
ReplyData(op, n, ok, data) == [Reply(op, n, ok) EXCEPT !.data = data]

---------------------------------------------------------------------------
(* Configurations *)

\* the default ports of the two transports
SocketPort == 1337
HttpPort == 4242

\* the server block ConfigManager returns when the file cannot be loaded
\* (config = {}): the defaults of the get() calls in reload_config
NoServerFile == [valid |-> FALSE, type |-> "socket", port |-> SocketPort]

\* the file contents ConfigManager can be given: a loadable file with its
\* server block, or a file that is missing, not YAML or empty
ServerFiles ==
    { [valid |-> TRUE, type |-> t, port |-> p] :
        t \in {"socket", "http"}, p \in {SocketPort, HttpPort} }
    \cup {NoServerFile}

\* ConfigManager.get_all_program_configs
get_all_program_configs(file, sf) == IF sf.valid THEN file ELSE << >>

\* ConfigManager.get_server_config, with the defaults reload_config applies
get_server_config(sf) == [type |-> sf.type, port |-> sf.port]

\* a listener of the daemon; an HTTP listener serves one request at a time
\* and is stalled when a handler never returns
Listener(block) ==
    [type |-> block.type, port |-> block.port, stalled |-> FALSE]

(* TaskmasterServer.start: binds a listener for the server block unless    *)
(* the port is taken, then sleeps in a loop for ever; only an HTTP server  *)
(* that cannot bind returns.                                               *)
TaskmasterServer_start(ls, block) ==
    LET taken == \E l \in ls : l.port = block.port
    IN  [listeners |-> IF taken THEN ls ELSE ls \cup {Listener(block)},
         returns |-> block.type = "http" /\ taken]

Policies == {"always", "never", "unexpected"}

\* a program spec with the fields the supervision engine reads
Program(cmd, autostart, autorestart, exitcodes, startretries, startsecs) ==
    [cmd |-> cmd, numprocs |-> 1, autostart |-> autostart,
     autorestart |-> autorestart, exitcodes |-> exitcodes,
     startretries |-> startretries, startsecs |-> startsecs,
     stopsignal |-> "TERM", stoptsecs |-> 1, user |-> "known"]

Profiles ==
    { Program(c, TRUE, ar, {0}, 1, ss) :
        c \in Cmds, ar \in Policies, ss \in {0, 1} }
    \cup { Program(c, TRUE, ar, {0}, 0, ss) :
             c \in {"false", "crash"}, ar \in Policies, ss \in {0, 1} }
    \cup { Program(c, FALSE, ar, {0}, 1, 1) :
             c \in {"sleep", "false"}, ar \in Policies }
    \cup { [Program("sleep", as, ar, {0}, 1, 1) EXCEPT !.user = u] :
             as \in BOOLEAN, ar \in {"never", "always"},
             u \in {"unknown", "unset"} }
    \cup { [Program("sleep", as, "never", {0}, 1, 1) EXCEPT !.numprocs = 0] :
             as \in BOOLEAN }
    \cup { [Program("sleep", TRUE, ar, {0}, 1, 1)
               EXCEPT !.stopsignal = sg, !.stoptsecs = st] :
             ar \in {"never", "always"}, sg \in {"TERM", "USR1"},
             st \in {0, 1} }

\* program tables with one program
Singles == { [n \in {"a"} |-> pr] : pr \in Profiles }

\* program tables with two programs
Pairs ==
    { [a |-> Program(ca, TRUE, ar, {0}, 1, 1),
       b |-> Program(cb, asb, "never", {0}, 0, 0)] :
        ca \in {"sleep", "false"}, ar \in {"always", "unexpected"},
        cb \in {"sleep", "missing"}, asb \in BOOLEAN }
    \cup { [a |-> [Program("sleep", TRUE, "never", {0}, 1, 1)
                     EXCEPT !.user = ua],
             b |-> [Program("sleep", TRUE, "never", {0}, 1, 1)
                     EXCEPT !.user = ub]] :
             ua \in {"known", "unset"}, ub \in {"known", "unset"} }

---------------------------------------------------------------------------
(* The connection of a client, the daemon process, the request threads *)

(* A text is the sequence of its words; a request line, the value of an    *)
(* HTTP query parameter, a verb and an argument are texts.                 *)

\* the request lines sent on a connection
MaxLines == 2

\* str.split(): the list of the words of a text
split(data) == [i \in 1..Len(data) |-> <<data[i]>>]

\* parse_request
parse_request(message) == [command |-> message[1], args |-> Tail(message)]

\* no request was received yet
NoMessage == [command |-> << >>, args |-> << >>]

(* The connection: open, the lines the client sent, those of them not yet  *)
(* read (inbox), the message answered by each reply line sent, whether the *)
(* handler is inside a dispatcher call that never returns; and for the     *)
(* last request of either transport: the transport (via), the request      *)
(* lines it was made of (req), and what was handed to process_command.     *)
NoWire ==
    [open |-> TRUE, lines |-> << >>, inbox |-> << >>, replies |-> << >>,
     blocked |-> FALSE, via |-> "none", req |-> << >>, handed |-> NoMessage]

\* the pid of the daemon and the pid a stale pid-file holds
DaemonPid == 100
OtherPid == 200

(* The daemon process: where main() is (main: before the pid-file check,   *)
(* started: the pid-file is written, exited), the content of the pid-file  *)
(* (NONE: no file), whether a process with the pid OtherPid is alive, and  *)
(* the exit code.                                                          *)
Started ==
    [phase |-> "started", pidfile |-> DaemonPid, otherAlive |-> FALSE,
     code |-> NONE]

\* the threads that serve connections
Handlers == {"h1", "h2"}

\* a thread that is not inside start() or stop()
Idle == [op |-> "idle", name |-> "", step |-> "", seen |-> << >>]

---------------------------------------------------------------------------
(* The state machine *)

\* the daemon before ProcessManager is constructed, for a set of tables
Start(tables) ==
    /\ configFile \in tables
    /\ serverFile = [valid |-> TRUE, type |-> "socket", port |-> SocketPort]
    /\ listeners = {}
    /\ up = FALSE
    /\ processes = << >>
    /\ children = << >>
    /\ now = 0
    /\ last = Reply("none", "", TRUE)
    /\ userStopped = {}
    /\ wire = NoWire
    /\ daemon = Started
    /\ pc = [h \in Handlers |-> Idle]

Init == Start(Singles)

\* no start attempt is counted beyond the bound
Bounded(procs) == \A n \in DOMAIN procs : procs[n].retry_count <= MaxRetry

(* The daemon's startup, reload_config called by main: the constructor of  *)
(* ProcessManager (load_programs, then start_all_autostart), then          *)
(* TaskmasterServer.start.  An exception of start_all_autostart leaves the *)
(* constructor and ends the daemon: there is no program table and no       *)
(* listener, the children already spawned stay.                            *)
ManagerInit ==
    /\ ~up
    /\ last.op = "none"
    /\ daemon.phase = "started"
    /\ LET procs == load_programs(get_all_program_configs(configFile,
                                                            serverFile))
           r == start_all_autostart(procs, children, Keys(procs), 1, now)
           s == TaskmasterServer_start({}, get_server_config(serverFile))
       IN  /\ processes' = IF r.exc THEN << >> ELSE r.procs
           /\ children' = r.os
           /\ up' = ~r.exc
           /\ listeners' = IF r.exc THEN {} ELSE s.listeners
           /\ last' = Reply("boot", "", ~r.exc)
    /\ UNCHANGED <<configFile, serverFile, now, userStopped>>

\* one iteration of ProcessMonitor.monitor_loop
MonitorTick ==
    /\ up
    /\ LET r == check_all(processes, children, Keys(processes), 1, now)
       IN  /\ Bounded(r.procs)
           /\ processes' = r.procs
           /\ children' = r.os
    /\ last' = Reply("tick", "", TRUE)
    /\ UNCHANGED <<configFile, serverFile, listeners, up, now, userStopped>>

MaxPid == Cardinality(Names) * MaxRetry

\* a request can be delivered: some listener is not stalled
Serving == \E l \in listeners : ~l.stalled

\* ProcessCommands.start; an exception of start() is answered with an error
\* reply that carries no snapshot
CmdStart(n) ==
    /\ up /\ Serving
    /\ IF ~program_exists(processes, n)
       THEN /\ last' = Reply("start", n, FALSE)
            /\ UNCHANGED <<processes, children, userStopped>>
       ELSE LET r == start(processes[n], children, now)
                g == get_status(r.w, r.os, now)
            IN  /\ r.w.retry_count <= MaxRetry
                /\ processes' = [processes EXCEPT ![n] =
                                   IF r.exc THEN r.w ELSE g.w]
                /\ children' = r.os
                /\ last' = IF r.exc THEN Reply("start", n, FALSE)
                           ELSE ReplyData("start", n, r.ret, g.snap)
                /\ userStopped' = userStopped \ {n}
    /\ UNCHANGED <<configFile, serverFile, listeners, up, now>>

\* no child that exits at once is still alive: time may pass
Settled(os) ==
    \A p \in 1..Len(os) : os[p].alive => os[p].cmd \notin Immediate

\* ProcessCommands.stop
CmdStop(n, resp) ==
    /\ up /\ Serving
    /\ IF ~program_exists(processes, n)
       THEN /\ last' = Reply("stop", n, FALSE)
            /\ UNCHANGED <<processes, children, userStopped, now>>
       ELSE LET r == stop(processes[n], children, resp, now)
                g == get_status(r.w, r.os, r.t)
            IN  /\ r.t <= MaxTime
                /\ r.t > now => Settled(r.os)
                /\ processes' = [processes EXCEPT ![n] = g.w]
                /\ children' = r.os
                /\ now' = r.t
                /\ last' = ReplyData("stop", n, r.ret, g.snap)
                /\ userStopped' = IF r.ret THEN userStopped \cup {n}
                                  ELSE userStopped
    /\ UNCHANGED <<configFile, serverFile, listeners, up>>

\* ProcessCommands.restart
CmdRestart(n, resp) ==
    /\ up /\ Serving
    /\ IF ~program_exists(processes, n)
       THEN /\ last' = Reply("restart", n, FALSE)
            /\ UNCHANGED <<processes, children, userStopped, now>>
       ELSE LET s == stop(processes[n], children, resp, now)
                r == start(s.w, s.os, s.t)
                g == get_status(r.w, r.os, s.t)
            IN  /\ s.t <= MaxTime
                /\ s.t > now => Settled(s.os)
                /\ now' = s.t
                /\ IF ~s.ret
                   THEN /\ processes' = [processes EXCEPT ![n] = s.w]
                        /\ children' = s.os
                        /\ last' = Reply("restart", n, FALSE)
                        /\ userStopped' = userStopped
                   ELSE /\ r.w.retry_count <= MaxRetry
                        /\ processes' = [processes EXCEPT ![n] =
                                           IF r.exc THEN r.w ELSE g.w]
                        /\ children' = r.os
                        /\ last' = IF r.exc THEN Reply("restart", n, FALSE)
                                   ELSE ReplyData("restart", n, r.ret, g.snap)
                        /\ userStopped' = userStopped \ {n}
    /\ UNCHANGED <<configFile, serverFile, listeners, up>>

\* ProcessCommands.status with a program name (the detail verb)
CmdDetail(n) ==
    /\ up /\ Serving
    /\ IF ~program_exists(processes, n)
       THEN /\ last' = Reply("detail", n, FALSE)
            /\ UNCHANGED processes
       ELSE LET g == get_status(processes[n], children, now)
            IN  /\ processes' = [processes EXCEPT ![n] = g.w]
                /\ last' = ReplyData("detail", n, TRUE,
                                     [m \in {n} |-> g.snap])
    /\ UNCHANGED <<configFile, serverFile, listeners, up, children, now,
                   userStopped>>

\* ProcessCommands.status without a name (the status verb)
CmdStatus ==
    /\ up /\ Serving
    /\ LET g == get_all_status(processes, children, Keys(processes), 1, now)
       IN  /\ processes' = g.procs
           /\ last' = ReplyData("status", "", TRUE, g.data)
    /\ UNCHANGED <<configFile, serverFile, listeners, up, children, now,
                   userStopped>>

\* a child exits on its own
ChildExit(p) ==
    /\ p \in 1..Len(children)
    /\ children[p].alive
    /\ children[p].cmd \in Immediate \cup {"crash"}
    /\ children' = [children EXCEPT ![p].alive = FALSE,
                                    ![p].code = ExitOf(children[p].cmd)]
    /\ last' = Reply("env", "", TRUE)
    /\ UNCHANGED <<configFile, serverFile, listeners, up, processes, now,
                   userStopped>>

\* one second passes
AdvanceTime ==
    /\ up
    /\ now < MaxTime
    /\ Settled(children)
    /\ now' = now + 1
    /\ last' = Reply("env", "", TRUE)
    /\ UNCHANGED <<configFile, serverFile, listeners, up, processes, children,
                   userStopped>>

\* process_command for the verb alive
CmdAlive ==
    /\ up /\ Serving
    /\ last' = Reply("alive", "", TRUE)
    /\ UNCHANGED <<configFile, serverFile, listeners, up, processes, children,
                   now, userStopped>>

\* process_command for a verb it does not know: the error reply with the
\* message "unknown command"
CmdUnknown ==
    /\ up /\ Serving
    /\ last' = Reply("unknown", "", FALSE)
    /\ UNCHANGED <<configFile, serverFile, listeners, up, processes, children,
                   now, userStopped>>

\* process_command for the verb detail without a program name: no branch
\* assigns the response, None is returned
CmdDetailNoArg ==
    /\ up /\ Serving
    /\ last' = Outcome("detail", NoArg, "null")
    /\ UNCHANGED <<configFile, serverFile, listeners, up, processes, children,
                   now, userStopped>>

\* a reload after which the dispatcher uses the program table of the second
\* server
Reload_swaps_table(via, file, sf) ==
    /\ up
    /\ via \in listeners /\ ~via.stalled
    /\ configFile' = file
    /\ serverFile' = sf
    /\ LET procs == load_programs(get_all_program_configs(file, sf))
           r == start_all_autostart(procs, children, Keys(procs), 1, now)
       IN  /\ Len(r.os) <= MaxSpawn
           /\ ~r.exc
           /\ children' = r.os
           /\ processes' = r.procs
           /\ last' = Outcome("reload", "", "blocked")
    /\ UNCHANGED <<listeners, up, now, userStopped>>

(* process_command for the verb reload, received by listener via, when the *)
(* configuration file holds the program table file and the server block    *)
(* sf.  reload_config finds current_server unset (nothing assigns it),     *)
(* builds a second TaskmasterServer, whose ProcessManager spawns the       *)
(* autostart programs of the file, and calls its start(), which returns    *)
(* only for an HTTP server that cannot bind.  The dispatcher keeps the     *)
(* ProcessCommands of the first server (process_command.process_commands), *)
(* so its program table is untouched.                                      *)
Reload(via, file, sf) ==
    /\ up
    /\ via \in listeners /\ ~via.stalled
    /\ configFile' = file
    /\ serverFile' = sf
    /\ LET procs == load_programs(get_all_program_configs(file, sf))
           r == start_all_autostart(procs, children, Keys(procs), 1, now)
           s == TaskmasterServer_start(listeners, get_server_config(sf))
       IN  /\ Len(r.os) <= MaxSpawn
           /\ children' = r.os
           /\ IF r.exc
              THEN /\ listeners' = listeners
                   /\ last' = IF via.type = "http"
                              THEN Outcome("reload", "", "http500")
                              ELSE Reply("reload", "", FALSE)
              ELSE IF s.returns
              THEN /\ listeners' = s.listeners
                   /\ last' = Outcome("reload", "", "null")
              ELSE /\ listeners' =
                        IF via.type = "http"
                        THEN (s.listeners \ {via})
                                \cup {[via EXCEPT !.stalled = TRUE]}
                        ELSE s.listeners
                   /\ last' = Outcome("reload", "", "blocked")
    /\ UNCHANGED <<up, processes, now, userStopped>>

Targets == DOMAIN configFile \cup {Unknown}

Responses == {"exit", "ignore", "error"}

Next ==
    \/ ManagerInit /\ UNCHANGED outer
    \/ MonitorTick /\ UNCHANGED outer
    \/ \E n \in Targets : CmdStart(n) /\ UNCHANGED outer
    \/ \E n \in Targets, resp \in Responses : CmdStop(n, resp)
          /\ UNCHANGED outer
    \/ \E n \in Targets, resp \in Responses : CmdRestart(n, resp)
          /\ UNCHANGED outer
    \/ \E n \in Targets : CmdDetail(n) /\ UNCHANGED outer
    \/ CmdStatus /\ UNCHANGED outer
    \/ \E p \in 1..MaxPid : ChildExit(p) /\ UNCHANGED outer
    \/ AdvanceTime /\ UNCHANGED outer

Spec == Init /\ [][Next]_vars

\* the daemon left alone: no client sends a command
NextAuto ==
    \/ ManagerInit /\ UNCHANGED outer
    \/ MonitorTick /\ UNCHANGED outer
    \/ \E p \in 1..MaxPid : ChildExit(p) /\ UNCHANGED outer
    \/ AdvanceTime /\ UNCHANGED outer

InitAuto == Start(Singles \cup Pairs)

SpecAuto == InitAuto /\ [][NextAuto]_vars

---------------------------------------------------------------------------
(* The daemon with its dispatcher and configuration reloads *)

ReloadPrograms ==
    { Program("sleep", as, "never", {0}, 1, 1) : as \in BOOLEAN }
    \cup { [Program("sleep", TRUE, "never", {0}, 1, 1)
               EXCEPT !.user = "unset"] }

\* program tables with program a alone, with a and b, and with b alone
ReloadTables ==
    { [n \in {"a"} |-> Program("sleep", TRUE, "never", {0}, 1, 1)] }
    \cup { [a |-> Program("sleep", TRUE, "never", {0}, 1, 1), b |-> pb] :
             pb \in ReloadPrograms }
    \cup { [n \in {"b"} |-> Program("sleep", as, "never", {0}, 1, 1)] :
             as \in BOOLEAN }

\* the daemon is started with program a, or a and b, on port 1337
InitReload ==
    /\ configFile \in ReloadTables
    /\ "a" \in DOMAIN configFile
    /\ "b" \in DOMAIN configFile => ~configFile["b"].autostart
    /\ serverFile \in ServerFiles
    /\ serverFile.valid
    /\ serverFile.port = SocketPort
    /\ listeners = {}
    /\ up = FALSE
    /\ processes = << >>
    /\ children = << >>
    /\ now = 0
    /\ last = Reply("none", "", TRUE)
    /\ userStopped = {}
    /\ wire = NoWire
    /\ daemon = Started
    /\ pc = [h \in Handlers |-> Idle]

Verbs == Names \cup {Unknown, NoArg}

NextReload ==
    \/ ManagerInit /\ UNCHANGED outer
    \/ \E via \in listeners, file \in ReloadTables, sf \in ServerFiles :
          Reload(via, file, sf) /\ UNCHANGED outer
    \/ CmdAlive /\ UNCHANGED outer
    \/ CmdUnknown /\ UNCHANGED outer
    \/ CmdDetailNoArg /\ UNCHANGED outer
    \/ \E n \in {Unknown, NoArg} : CmdStart(n) /\ UNCHANGED outer
    \/ \E n \in Verbs : CmdStop(n, "exit") /\ UNCHANGED outer
    \/ \E n \in {Unknown, NoArg} : CmdRestart(n, "exit") /\ UNCHANGED outer
    \/ \E n \in Verbs : CmdDetail(n) /\ UNCHANGED outer
    \/ CmdStatus /\ UNCHANGED outer

SpecReload == InitReload /\ [][NextReload]_vars

---------------------------------------------------------------------------
(* should_autorestart applied to workers drawn from bounded sets *)

MaxFnRetry == 6
MaxFnStartretries == 2

FnPrograms ==
    { Program("sleep", TRUE, ar, ec, sr, 1) :
        ar \in Policies, ec \in {{0}, {0, 1}}, sr \in 0..MaxFnStartretries }

FnWorkers ==
    { [ProcessWorker("a", c) EXCEPT !.status = st, !.exit_code = x,
                                   !.retry_count = rc, !.stop_byuser = b] :
        c \in FnPrograms, st \in Statuses, x \in {NONE, 0, 1},
        rc \in 0..MaxFnRetry, b \in BOOLEAN }

InitFn ==
    /\ serverFile = [valid |-> TRUE, type |-> "socket", port |-> SocketPort]
    /\ listeners = {}
    /\ \E w \in FnWorkers :
         /\ configFile = [n \in {"a"} |-> w.config]
         /\ processes = [n \in {"a"} |-> w]
    /\ up = TRUE
    /\ children = << >>
    /\ now = 0
    /\ last = Reply("none", "", TRUE)
    /\ userStopped = {}
    /\ wire = NoWire
    /\ daemon = Started
    /\ pc = [h \in Handlers |-> Idle]

\* a call of should_autorestart; the reply is success when it returns True
AskAutorestart(n) ==
    /\ up
    /\ n \in DOMAIN processes
    /\ last' = Reply("should_autorestart", n, should_autorestart(processes[n]))
    /\ UNCHANGED <<configFile, serverFile, listeners, up, processes, children,
                   now, userStopped>>

NextFn == \E n \in {"a"} : AskAutorestart(n) /\ UNCHANGED outer

SpecFn == InitFn /\ [][NextFn]_vars

TypeOK ==
    /\ up \in BOOLEAN
    /\ now \in 0..MaxTime
    /\ \A n \in DOMAIN processes : processes[n].status \in Statuses

---------------------------------------------------------------------------
(* The dispatcher and the two transports *)

\* the state of the supervision engine and of the listeners
engine ==
    <<configFile, serverFile, listeners, up, processes, children, now,
      userStopped>>

\* the program name process_command passes on: args[0] if args else None;
\* a text of several words is the name of no program
ProgramArg(args) ==
    IF args = << >> THEN NoArg
    ELSE IF Len(args[1]) = 1 THEN args[1][1]
    ELSE Unknown

(* process_command for a verb and a list of arguments received by the      *)
(* listener via: the operation of the verb, as one step.  A reload reads   *)
(* the configuration file as it is.                                        *)
process_command(command, args, via) ==
    IF command = <<"alive">> THEN CmdAlive
    ELSE IF command = <<"start">> THEN CmdStart(ProgramArg(args))
    ELSE IF command = <<"stop">>
    THEN \E resp \in Responses : CmdStop(ProgramArg(args), resp)
    ELSE IF command = <<"restart">>
    THEN \E resp \in Responses : CmdRestart(ProgramArg(args), resp)
    ELSE IF command = <<"status">> THEN CmdStatus
    ELSE IF command = <<"detail">>
    THEN IF args # << >> THEN CmdDetail(ProgramArg(args)) ELSE CmdDetailNoArg
    ELSE IF command = <<"reload">> THEN Reload(via, configFile, serverFile)
    ELSE CmdUnknown

\* the text of a chunk of lines, stripped: newlines are white space
RECURSIVE Text(_, _)
Text(chunk, i) ==
    IF i > Len(chunk) THEN << >> ELSE chunk[i] \o Text(chunk, i + 1)

\* the client writes a request line on its connection to the socket listener
ClientSend(line) ==
    /\ up
    /\ \E l \in listeners : l.type = "socket"
    /\ wire.open
    /\ Len(wire.lines) < MaxLines
    /\ wire' = [wire EXCEPT !.lines = Append(@, line),
                            !.inbox = Append(@, line)]
    /\ UNCHANGED <<engine, last, daemon, pc>>

(* One iteration of the loop of SocketServer.handle_client: recv returns   *)
(* the k lines that have arrived; the stripped text is split and parsed as *)
(* one request, the reply of process_command is sent as one line.  An      *)
(* empty text ends the loop and closes the connection.                     *)
SocketRead(k) ==
    /\ wire.open /\ ~wire.blocked
    /\ k \in 1..Len(wire.inbox)
    /\ \E via \in listeners :
         /\ via.type = "socket" /\ ~via.stalled
         /\ LET chunk == SubSeq(wire.inbox, 1, k)
                rest == SubSeq(wire.inbox, k + 1, Len(wire.inbox))
                data == Text(chunk, 1)
                m == parse_request(split(data))
            IN  IF data = << >>
                THEN /\ wire' = [wire EXCEPT !.open = FALSE, !.inbox = rest,
                                             !.via = "socket", !.req = chunk,
                                             !.handed = NoMessage]
                     /\ UNCHANGED <<engine, last>>
                ELSE /\ process_command(m.command, m.args, via)
                     /\ wire' = [wire EXCEPT
                                   !.inbox = rest,
                                   !.via = "socket", !.req = chunk,
                                   !.handed = m,
                                   !.blocked = last'.status = "blocked",
                                   !.replies = IF last'.status = "blocked"
                                               THEN @ ELSE Append(@, m)]
    /\ UNCHANGED <<daemon, pc>>

(* TaskmasterHTTPHandler.do_GET for GET /command?cmd=<text>: parse_qs      *)
(* gives the list of the values of cmd, here the one value text; an empty  *)
(* value is dropped by parse_qs and answered 400.                          *)
HttpGet(text) ==
    /\ \E via \in listeners :
         /\ via.type = "http" /\ ~via.stalled
         /\ LET cmd_list == IF text = << >> THEN << >> ELSE <<text>>
                m == parse_request(cmd_list)
            IN  IF cmd_list = << >>
                THEN /\ last' = Outcome("http", "", "http400")
                     /\ wire' = [wire EXCEPT !.via = "http",
                                             !.req = <<text>>,
                                             !.handed = NoMessage]
                     /\ UNCHANGED engine
                ELSE /\ process_command(m.command, m.args, via)
                     /\ wire' = [wire EXCEPT !.via = "http",
                                             !.req = <<text>>,
                                             !.handed = m]
    /\ UNCHANGED <<daemon, pc>>

\* the request lines of the clients
WireLines ==
    { <<"alive">>, <<"status">>, <<"bogus">>, <<"start", "a">>,
      <<"stop", "a">>, <<"detail", "a">>, << >> }

\* the daemon with one program, on either transport
InitWire ==
    /\ configFile \in
         { [n \in {"a"} |-> Program("sleep", as, "never", {0}, 1, 0)] :
             as \in BOOLEAN }
    /\ serverFile \in { [valid |-> TRUE, type |-> "socket",
                         port |-> SocketPort],
                        [valid |-> TRUE, type |-> "http", port |-> HttpPort] }
    /\ listeners = {}
    /\ up = FALSE
    /\ processes = << >>
    /\ children = << >>
    /\ now = 0
    /\ last = Reply("none", "", TRUE)
    /\ userStopped = {}
    /\ wire = NoWire
    /\ daemon = Started
    /\ pc = [h \in Handlers |-> Idle]

NextWire ==
    \/ ManagerInit /\ UNCHANGED outer
    \/ \E line \in WireLines : ClientSend(line)
    \/ \E k \in 1..MaxLines : SocketRead(k)
    \/ \E text \in WireLines : HttpGet(text)

SpecWire == InitWire /\ [][NextWire]_vars

---------------------------------------------------------------------------
(* The daemon process: the pid-file and the termination signals *)

\* os.getpgid(pid) succeeds: a process with that pid exists
PidAlive(d, pid) ==
    IF pid = DaemonPid THEN d.phase # "exited" ELSE d.otherAlive

\* main that writes the pid-file without looking at it
Main_ignores_pidfile ==
    /\ daemon.phase = "main"
    /\ daemon' = [daemon EXCEPT !.phase = "started", !.pidfile = DaemonPid]
    /\ UNCHANGED <<engine, last, wire, pc>>

(* main up to the call of reload_config: when the pid-file exists and      *)
(* os.getpgid finds a process with its pid, sys.exit(1); when os.getpgid   *)
(* raises OSError or there is no file, the daemon's pid is written to the  *)
(* pid-file.  The file holds a decimal pid.                                *)
Main ==
    /\ daemon.phase = "main"
    /\ IF daemon.pidfile # NONE /\ PidAlive(daemon, daemon.pidfile)
       THEN daemon' = [daemon EXCEPT !.phase = "exited", !.code = 1]
       ELSE daemon' = [daemon EXCEPT !.phase = "started",
                                     !.pidfile = DaemonPid]
    /\ UNCHANGED <<engine, last, wire, pc>>

(* SIGTERM or SIGINT reaches the daemon.  The handler registered by main,  *)
(* signal_handler(), takes no parameters and Python calls it with two: the *)
(* call raises TypeError in the main thread, which no handler on its stack *)
(* catches, and the interpreter exits with code 1.  The body of            *)
(* signal_handler never runs; the children are not signalled and the       *)
(* pid-file stays.                                                         *)
Terminate ==
    /\ daemon.phase = "started"
    /\ daemon' = [daemon EXCEPT !.phase = "exited", !.code = 1]
    /\ up' = FALSE
    /\ listeners' = {}
    /\ processes' = << >>
    /\ wire' = [wire EXCEPT !.open = FALSE]
    /\ last' = Reply("signal", "", FALSE)
    /\ UNCHANGED <<configFile, serverFile, children, now, userStopped, pc>>

\* the daemon is launched: no pid-file, or the pid-file of an earlier daemon
\* whose pid is or is not the pid of a process
InitDaemon ==
    /\ configFile \in Singles
    /\ serverFile = [valid |-> TRUE, type |-> "socket", port |-> SocketPort]
    /\ listeners = {}
    /\ up = FALSE
    /\ processes = << >>
    /\ children = << >>
    /\ now = 0
    /\ last = Reply("none", "", TRUE)
    /\ userStopped = {}
    /\ wire = NoWire
    /\ daemon \in { [phase |-> "main", pidfile |-> f, otherAlive |-> o,
                     code |-> NONE] :
                      f \in {NONE, OtherPid}, o \in BOOLEAN }
    /\ pc = [h \in Handlers |-> Idle]

NextDaemon ==
    \/ Main
    \/ ManagerInit /\ UNCHANGED outer
    \/ MonitorTick /\ UNCHANGED outer
    \/ \E p \in 1..MaxPid : ChildExit(p) /\ UNCHANGED outer
    \/ AdvanceTime /\ UNCHANGED outer
    \/ Terminate

SpecDaemon == InitDaemon /\ [][NextDaemon]_vars

---------------------------------------------------------------------------
(* start() and stop() statement by statement, run by connection threads.   *)
(* Nothing in the source is a lock: a thread can be preempted between any  *)
(* two statements, so each block below is a step of its own.               *)

\* a thread inside an operation on program n, about to run the block step;
\* seen is what the operation has read and keeps in a local
At(op, n, step, seen) == [op |-> op, name |-> n, step |-> step, seen |-> seen]

\* the status and the pid a snapshot reports
Shown(w) == [status |-> w.status, pid |-> w.pid]

(* ProcessCommands.start up to the already-running test of                 *)
(* ProcessWorker.start (lines 84-87).                                      *)
StartBegin(h, n) ==
    /\ up /\ Serving
    /\ pc[h] = Idle
    /\ program_exists(processes, n)
    /\ LET w0 == [processes[n] EXCEPT !.stop_byuser = FALSE]
           r == is_running(w0, children, now)
           g == get_status(r.w, children, now)
       IN  IF Raises(w0)
           THEN /\ processes' = [processes EXCEPT ![n] = w0]
                /\ last' = Reply("start", n, FALSE)
                /\ pc' = pc
           ELSE IF r.ret
           THEN /\ processes' = [processes EXCEPT ![n] = g.w]
                /\ last' = ReplyData("start", n, FALSE, g.snap)
                /\ pc' = pc
           ELSE /\ processes' = [processes EXCEPT ![n] = r.w]
                /\ last' = Reply("step", n, TRUE)
                /\ pc' = [pc EXCEPT ![h] = At("start", n, "spawn",
                                              Shown(r.w))]
    /\ userStopped' = userStopped \ {n}
    /\ UNCHANGED <<configFile, serverFile, listeners, up, children, now,
                   wire, daemon>>

(* ProcessWorker.start from the retry count to the assignment of the Popen *)
(* handle (lines 89-129), with the ways the spawn fails.                   *)
StartSpawn(h) ==
    /\ pc[h].op = "start" /\ pc[h].step = "spawn"
    /\ LET n == pc[h].name
           w1 == [processes[n] EXCEPT !.retry_count = @ + 1]
           p == Len(children) + 1
           wf == [w1 EXCEPT !.status = "fatal"]
           g == get_status(IF w1.config.cmd = "missing" THEN wf ELSE w1,
                           children, now)
       IN  /\ w1.retry_count <= MaxRetry
           /\ IF w1.config.user = "unset"
              THEN /\ processes' = [processes EXCEPT ![n] = wf]
                   /\ children' = children
                   /\ last' = Reply("start", n, FALSE)
                   /\ pc' = [pc EXCEPT ![h] = Idle]
              ELSE IF w1.config.user = "unknown"
                      \/ w1.config.cmd = "missing"
              THEN /\ processes' = [processes EXCEPT ![n] = g.w]
                   /\ children' = children
                   /\ last' = ReplyData("start", n, FALSE, g.snap)
                   /\ pc' = [pc EXCEPT ![h] = Idle]
              ELSE /\ processes' = [processes EXCEPT ![n] =
                                      [w1 EXCEPT !.process = Popen(p)]]
                   /\ children' = Append(children, Child(w1))
                   /\ last' = Reply("step", n, TRUE)
                   /\ pc' = [pc EXCEPT ![h].step = "status"]
    /\ UNCHANGED <<configFile, serverFile, listeners, up, now, userStopped,
                   wire, daemon>>

\* self.status = "starting" (line 130)
StartStatus(h) ==
    /\ pc[h].op = "start" /\ pc[h].step = "status"
    /\ processes' = [processes EXCEPT ![pc[h].name].status = "starting"]
    /\ last' = Reply("step", pc[h].name, TRUE)
    /\ pc' = [pc EXCEPT ![h].step = "pid"]
    /\ UNCHANGED <<configFile, serverFile, listeners, up, children, now,
                   userStopped, wire, daemon>>

\* self.pid = self.process.pid (line 131)
StartPid(h) ==
    /\ pc[h].op = "start" /\ pc[h].step = "pid"
    /\ processes' = [processes EXCEPT ![pc[h].name].pid =
                                         processes[pc[h].name].process.pid]
    /\ last' = Reply("step", pc[h].name, TRUE)
    /\ pc' = [pc EXCEPT ![h].step = "time"]
    /\ UNCHANGED <<configFile, serverFile, listeners, up, children, now,
                   userStopped, wire, daemon>>

(* self.start_time = datetime.now() and the return of start() (lines       *)
(* 132-143), then the reply of ProcessCommands.start with its snapshot.    *)
StartEnd(h) ==
    /\ pc[h].op = "start" /\ pc[h].step = "time"
    /\ LET n == pc[h].name
           g == get_status([processes[n] EXCEPT !.start_time = now],
                           children, now)
       IN  /\ processes' = [processes EXCEPT ![n] = g.w]
           /\ last' = ReplyData("start", n, TRUE, g.snap)
    /\ pc' = [pc EXCEPT ![h] = Idle]
    /\ UNCHANGED <<configFile, serverFile, listeners, up, children, now,
                   userStopped, wire, daemon>>

(* ProcessCommands.stop up to the running test of ProcessWorker.stop       *)
(* (lines 160-162).                                                        *)
StopBegin(h, n) ==
    /\ up /\ Serving
    /\ pc[h] = Idle
    /\ program_exists(processes, n)
    /\ LET w0 == [processes[n] EXCEPT !.stop_byuser = TRUE]
           r == is_running(w0, children, now)
           g == get_status(r.w, children, now)
       IN  IF Raises(w0)
           THEN /\ processes' = [processes EXCEPT ![n] = w0]
                /\ last' = Reply("stop", n, FALSE)
                /\ pc' = pc
                /\ userStopped' = userStopped
           ELSE IF ~r.ret
           THEN /\ processes' = [processes EXCEPT ![n] = g.w]
                /\ last' = ReplyData("stop", n, TRUE, g.snap)
                /\ pc' = pc
                /\ userStopped' = userStopped \cup {n}
           ELSE /\ processes' = [processes EXCEPT ![n] = r.w]
                /\ last' = Reply("step", n, TRUE)
                /\ pc' = [pc EXCEPT ![h] = At("stop", n, "kill",
                                              Shown(r.w))]
                /\ userStopped' = userStopped
    /\ UNCHANGED <<configFile, serverFile, listeners, up, children, now,
                   wire, daemon>>

(* os.kill(self.pid, stop_signal) (line 169).  The child dies of the       *)
(* signal (resp exit) or survives it (ignore); a child that is dead and    *)
(* was reaped through the handle makes os.kill raise ProcessLookupError:   *)
(* status stopped, stop() returns True.                                    *)
StopKill(h, resp) ==
    /\ pc[h].op = "stop" /\ pc[h].step = "kill"
    /\ LET n == pc[h].name
           w == processes[n]
           sig == Signal(w.config.stopsignal)
           gone == /\ ~children[w.pid].alive
                   /\ w.process.pid = w.pid
                   /\ w.process.returncode # NONE
           g == get_status([w EXCEPT !.status = "stopped"], children, now)
       IN  IF gone
           THEN /\ processes' = [processes EXCEPT ![n] = g.w]
                /\ children' = children
                /\ last' = ReplyData("stop", n, TRUE, g.snap)
                /\ pc' = [pc EXCEPT ![h] = Idle]
                /\ userStopped' = userStopped \cup {n}
           ELSE /\ processes' = processes
                /\ children' =
                     IF ~children[w.pid].alive THEN children
                     ELSE [children EXCEPT ![w.pid] =
                             IF resp = "exit" THEN Killed(@, sig)
                             ELSE Signalled(@, sig)]
                /\ last' = Reply("step", n, TRUE)
                /\ pc' = [pc EXCEPT ![h].step = "stopping"]
                /\ userStopped' = userStopped
    /\ UNCHANGED <<configFile, serverFile, listeners, up, now, wire, daemon>>

\* self.status = "stopping" (line 170)
StopStatus(h) ==
    /\ pc[h].op = "stop" /\ pc[h].step = "stopping"
    /\ processes' = [processes EXCEPT ![pc[h].name].status = "stopping"]
    /\ last' = Reply("step", pc[h].name, TRUE)
    /\ pc' = [pc EXCEPT ![h].step = "wait"]
    /\ UNCHANGED <<configFile, serverFile, listeners, up, children, now,
                   userStopped, wire, daemon>>

(* self.process.wait(timeout=stop_time) is entered (line 176): the handle  *)
(* the worker holds at this moment is the one waited on.                   *)
StopWait(h) ==
    /\ pc[h].op = "stop" /\ pc[h].step = "wait"
    /\ pc' = [pc EXCEPT ![h].step = "waiting",
                        ![h].seen = processes[pc[h].name].process]
    /\ last' = Reply("step", pc[h].name, TRUE)
    /\ UNCHANGED <<configFile, serverFile, listeners, up, processes,
                   children, now, userStopped, wire, daemon>>

(* The wait ends (lines 176-186): at once when the child of the handle     *)
(* waited on is dead; else stoptsecs later, and then os.kill(self.pid,     *)
(* SIGKILL) and self.process.wait(), which returns when the child of the   *)
(* handle the worker holds now is dead.  Then status stopped, stop()       *)
(* returns True and ProcessCommands.stop replies with a snapshot.          *)
StopEnd(h) ==
    /\ pc[h].op = "stop" /\ pc[h].step = "waiting"
    /\ LET n == pc[h].name
           w == processes[n]
           waited == pc[h].seen
           dead == ~children[waited.pid].alive
           t2 == IF dead THEN now ELSE now + w.config.stoptsecs
           os2 == IF dead \/ ~children[w.pid].alive THEN children
                  ELSE [children EXCEPT ![w.pid] = Killed(@, SIGKILL)]
           w2 == [w EXCEPT !.process = poll(@, os2), !.status = "stopped"]
           g == get_status(w2, os2, t2)
       IN  /\ t2 <= MaxTime
           /\ t2 > now => Settled(os2)
           /\ ~dead => ~os2[w.process.pid].alive
           /\ processes' = [processes EXCEPT ![n] = g.w]
           /\ children' = os2
           /\ now' = t2
           /\ last' = ReplyData("stop", n, TRUE, g.snap)
    /\ pc' = [pc EXCEPT ![h] = Idle]
    /\ userStopped' = userStopped \cup {pc[h].name}
    /\ UNCHANGED <<configFile, serverFile, listeners, up, wire, daemon>>

\* the daemon with one program that runs until it is signalled and that is
\* not started at boot
InitThreads ==
    /\ configFile \in
         { [n \in {"a"} |-> Program("sleep", FALSE, ar, {0}, 1, ss)] :
             ar \in {"always", "never"}, ss \in {0, 1} }
    /\ serverFile = [valid |-> TRUE, type |-> "socket", port |-> SocketPort]
    /\ listeners = {}
    /\ up = FALSE
    /\ processes = << >>
    /\ children = << >>
    /\ now = 0
    /\ last = Reply("none", "", TRUE)
    /\ userStopped = {}
    /\ wire = NoWire
    /\ daemon = Started
    /\ pc = [h \in Handlers |-> Idle]

\* the requests of the threads and the Monitor's ticks; time passes while
\* a stop waits for its child
NextThreads ==
    \/ ManagerInit /\ UNCHANGED outer
    \/ MonitorTick /\ UNCHANGED outer
    \/ \E n \in DOMAIN configFile : CmdDetail(n) /\ UNCHANGED outer
    \/ \E h \in Handlers, n \in DOMAIN configFile : StartBegin(h, n)
    \/ \E h \in Handlers : StartSpawn(h)
    \/ \E h \in Handlers : StartStatus(h)
    \/ \E h \in Handlers : StartPid(h)
    \/ \E h \in Handlers : StartEnd(h)
    \/ \E h \in Handlers, n \in DOMAIN configFile : StopBegin(h, n)
    \/ \E h \in Handlers, resp \in {"exit", "ignore"} : StopKill(h, resp)
    \/ \E h \in Handlers : StopStatus(h)
    \/ \E h \in Handlers : StopWait(h)
    \/ \E h \in Handlers : StopEnd(h)

SpecThreads == InitThreads /\ [][NextThreads]_vars

---------------------------------------------------------------------------
(* Observations used by the properties *)

\* the worker's Popen handle refers to a child that is alive
HasLiveChild(w, os) == w.process # NoProcess /\ os[w.process.pid].alive

\* the pids of the live children spawned for program n
LiveChildren(n, os) == {p \in 1..Len(os) : os[p].owner = n /\ os[p].alive}

\* the pids of all children ever spawned for program n
Spawned(n, os) == {p \in 1..Len(os) : os[p].owner = n}

Active == {"running", "starting", "stopping"}

---------------------------------------------------------------------------
(* C1: after a user stop answered success, no Monitor tick spawns a child  *)
(* for that worker until a user start or restart of it.                    *)
C1_NoRespawnAfterStop ==
    [][\A n \in DOMAIN processes :
         (n \in userStopped /\ last'.op = "tick")
            => Spawned(n, children') = Spawned(n, children)]_vars

(* C2: start on a worker whose child is alive answers error, keeps the     *)
(* pid, spawns nothing and leaves exactly one live child of that worker.   *)
C2_StartOnRunning ==
    [][\A n \in DOMAIN processes :
         (last'.op = "start" /\ last'.name = n
            /\ HasLiveChild(processes[n], children))
            => /\ last'.status = "error"
               /\ processes'[n].pid = processes[n].pid
               /\ children' = children
               /\ Cardinality(LiveChildren(n, children')) = 1]_vars

C2_Witness ==
    /\ last.op = "start"
    /\ last.status = "error"
    /\ last.name \in DOMAIN processes
    /\ HasLiveChild(processes[last.name], children)


Polled(n) ==
    \/ last.op \in {"boot", "tick", "status"}
    \/ last.op \in {"start", "stop", "restart", "detail"} /\ last.name = n

C4_RetryBound ==
    \A n \in DOMAIN processes :
        processes[n].retry_count <= processes[n].config.startretries + 1

(* C5: on a Monitor tick, a worker whose child is found not running by the *)
(* tick's poll is started if and only if its should_autorestart() returns  *)
(* true.                                                                   *)
C5_TickFollowsPolicy ==
    [][\A n \in DOMAIN processes :
         LET r == is_running(processes[n], children, now)
         IN  (last'.op = "tick" /\ processes[n].process # NoProcess /\ ~r.ret)
                => ((processes'[n].retry_count = processes[n].retry_count + 1)
                      <=> should_autorestart(r.w))]_vars

\* the ordered rules of the specification for should_autorestart
Rules(w) ==
    IF w.stop_byuser THEN FALSE
    ELSE IF w.config.autorestart = "always"
            /\ w.retry_count < w.config.startretries THEN TRUE
    ELSE IF w.config.autorestart = "unexpected"
            /\ w.exit_code \notin w.config.exitcodes
            /\ w.retry_count < w.config.startretries THEN TRUE
    ELSE IF w.status = "fatal" /\ w.retry_count < w.config.startretries
         THEN TRUE
    ELSE FALSE

(* C6: should_autorestart() returns the value of the ordered rules for     *)
(* every combination of its inputs.                                        *)
C6_OrderedRules ==
    \A n \in DOMAIN processes :
        (last.op = "should_autorestart" /\ last.name = n)
           => ((last.status = "success") <=> Rules(processes[n]))

\* an autostart program with policy unexpected whose command exits at once
\* with code 1, unexpected, before startsecs
FailsEarly(c) ==
    /\ c.autostart
    /\ c.autorestart = "unexpected"
    /\ c.cmd = "false"
    /\ 1 \notin c.exitcodes
    /\ c.startsecs >= 1
    /\ c.user = "known"

(* C7: such a worker, left to the Monitor, makes exactly startretries + 1  *)
(* start attempts and then rests in fatal with restarts = 0: after a tick  *)
(* that leaves it without a live child it is fatal with                    *)
(* retry_count = startretries + 1, and it never makes more attempts.       *)
C7_RetriesThenFatal ==
    \A n \in DOMAIN processes :
        FailsEarly(processes[n].config)
           => /\ processes[n].retry_count
                    <= processes[n].config.startretries + 1
              /\ (last.op = "tick" /\ ~HasLiveChild(processes[n], children))
                    => /\ processes[n].status = "fatal"
                       /\ processes[n].retry_count
                             = processes[n].config.startretries + 1
                       /\ processes[n].restart_count = 0

\* worker n has policy unexpected and its child exited with an expected code
ExpectedExit(n) ==
    /\ processes[n].config.autorestart = "unexpected"
    /\ processes[n].process # NoProcess
    /\ ~children[processes[n].process.pid].alive
    /\ children[processes[n].process.pid].code \in processes[n].config.exitcodes

(* C8: a worker with policy unexpected whose child exited with a code in   *)
(* exitcodes is not respawned by a Monitor tick.                           *)
C8_ExpectedExitNoRespawn ==
    [][\A n \in DOMAIN processes :
         (last'.op = "tick" /\ ExpectedExit(n))
            => /\ Spawned(n, children') = Spawned(n, children)
               /\ processes'[n].process.pid = processes[n].process.pid
               /\ processes'[n].retry_count = processes[n].retry_count]_vars

C8_Witness ==
    /\ last.op = "tick"
    /\ \E n \in DOMAIN processes :
          /\ ExpectedExit(n)
          /\ processes[n].exit_code = 0
          /\ processes[n].status = "stopped"

\* the largest startsecs of a program table
MaxStartsecs(table) ==
    CHOOSE m \in {table[n].startsecs : n \in DOMAIN table} :
        \A n \in DOMAIN table : table[n].startsecs <= m

(* C9: once max(startsecs) has elapsed since startup and the Monitor has   *)
(* ticked, every autostart worker is running or fatal (or in an attempt    *)
(* younger than its startsecs), and every other worker is stopped and no   *)
(* child was ever spawned for it.                                          *)
C9_AutostartOutcome ==
    (up /\ last.op = "tick" /\ now >= MaxStartsecs(configFile))
       => \A n \in DOMAIN processes :
             IF processes[n].config.autostart
             THEN \/ processes[n].status \in {"running", "fatal"}
                  \/ /\ processes[n].status = "starting"
                     /\ now - processes[n].start_time
                           < processes[n].config.startsecs
             ELSE /\ processes[n].status = "stopped"
                  /\ Spawned(n, children) = {}

(* C10: stop on a worker in status stopped answers success and changes     *)
(* none of status, pid, exit_code, retry_count and restart_count.          *)
C10_StopOnStoppedNoop ==
    [][\A n \in DOMAIN processes :
         (last'.op = "stop" /\ last'.name = n
            /\ processes[n].status = "stopped")
            => /\ last'.status = "success"
               /\ processes'[n].status = processes[n].status
               /\ processes'[n].pid = processes[n].pid
               /\ processes'[n].exit_code = processes[n].exit_code
               /\ processes'[n].retry_count = processes[n].retry_count
               /\ processes'[n].restart_count
                     = processes[n].restart_count]_vars

C12_StoppedSnapshot ==
    \A n \in userStopped :
        (last.op \in {"detail", "status"} /\ n \in DOMAIN last.data)
           => /\ last.data[n].status = "stopped"
              /\ last.data[n].pid = NONE


\* the step is a reload that read a loadable configuration file
Reloaded == last'.op = "reload" /\ serverFile'.valid

(* C13: a reload leaves every program that is in the old and in the new    *)
(* configuration with an unchanged spec with the same child (same pid, not *)
(* signalled, still alive if it was) and the same worker state.            *)
C13_ReloadKeepsUnchanged ==
    [][\A n \in DOMAIN processes :
         (/\ Reloaded
          /\ n \in DOMAIN configFile'
          /\ configFile'[n] = processes[n].config)
            => /\ n \in DOMAIN processes'
               /\ processes'[n] = processes[n]
               /\ processes[n].process # NoProcess
                     => children'[processes[n].process.pid]
                           = children[processes[n].process.pid]]_vars

C13_Witness ==
    /\ last.op = "reload"
    /\ serverFile.valid
    /\ \E n \in DOMAIN processes \cap DOMAIN configFile :
          /\ configFile[n] = processes[n].config
          /\ HasLiveChild(processes[n], children)
          /\ processes[n].status = "starting"
          /\ Len(children) > processes[n].pid

(* C14: after a reload, a program of the old configuration that is absent  *)
(* from the new one is no longer in the dispatcher's program table and has *)
(* no live child.                                                          *)
C14_ReloadRemoves ==
    [][\A n \in DOMAIN processes :
         (Reloaded /\ n \notin DOMAIN configFile')
            => /\ n \notin DOMAIN processes'
               /\ LiveChildren(n, children') = {}]_vars

(* C15: after a reload, a program that is only in the new configuration    *)
(* has a fresh worker in the dispatcher's program table, started if and    *)
(* only if its autostart is true.                                          *)
C15_ReloadAdds ==
    [][\A n \in Names :
         (Reloaded /\ n \in DOMAIN configFile' /\ n \notin DOMAIN processes)
            => /\ n \in DOMAIN processes'
               /\ processes'[n].restart_count = 0
               /\ (processes'[n].retry_count = 1) <=> configFile'[n].autostart
               /\ (Spawned(n, children') # {}) <=> configFile'[n].autostart
          ]_vars

(* C16: a reload that follows a reload of the same configuration spawns no *)
(* child, stops no child and changes no worker state, so the snapshots     *)
(* stay the same.                                                          *)
C16_ReloadTwice ==
    [][(/\ last.op = "reload" /\ last'.op = "reload"
        /\ configFile' = configFile /\ serverFile' = serverFile)
          => /\ children' = children
             /\ processes' = processes]_vars

(* C17: a reload that cannot load the configuration file answers with an   *)
(* error and leaves the program table, the workers and the children as     *)
(* they were.                                                              *)
C17_ReloadFailure ==
    [][(last'.op = "reload" /\ ~serverFile'.valid)
          => /\ last'.status = "error"
             /\ processes' = processes
             /\ children' = children]_vars

(* C18: every command gets a reply, and after every command, a reload      *)
(* included, the daemon still takes requests.                              *)
C18_AlwaysReplies ==
    /\ last.status # "blocked"
    /\ up => Serving

\* the verbs of the dispatcher, and the label of a verb it does not know
DispatcherOps ==
    {"alive", "status", "detail", "start", "stop", "restart", "reload",
     "unknown"}

(* C19: the dispatcher answers every token sequence with a reply whose     *)
(* status is success or error; an unknown verb and a verb without its      *)
(* program name get an error reply.                                        *)
C19_StructuredReply ==
    last.op \in DispatcherOps
       => /\ last.status \in {"success", "error"}
          /\ last.op = "unknown" => last.status = "error"
          /\ last.name = NoArg => last.status = "error"

(* C20: start, stop, restart or detail of a name that is not in the        *)
(* program table gets an error reply and changes neither the table, nor a  *)
(* worker, nor a child.                                                    *)
C20_UnknownProgram ==
    [][(/\ last'.op \in {"start", "stop", "restart", "detail"}
        /\ last'.name \notin DOMAIN processes)
          => /\ last'.status = "error"
             /\ processes' = processes
             /\ children' = children]_vars

C20_Witness ==
    /\ last.op = "stop"
    /\ last.name = Unknown
    /\ last.status = "error"
    /\ \E n \in DOMAIN processes : HasLiveChild(processes[n], children)

(* C25: a worker whose program has numprocs = 0 never has a child, whoever *)
(* asks for the start, and its status is stopped.                          *)
C25_NumprocsZero ==
    \A n \in DOMAIN processes :
        processes[n].config.numprocs = 0
           => /\ Spawned(n, children) = {}
              /\ processes[n].status = "stopped"

(* C26: a start, stop or restart that fails leaves every other worker as   *)
(* it was, and the boot spawns every autostart program of the table that   *)
(* can be spawned, whatever happens to the start of the others.            *)
C26_FailureIsLocal ==
    [][/\ (last'.op \in {"start", "stop", "restart"}
              /\ last'.status = "error")
          => \A m \in DOMAIN processes \ {last'.name} :
                m \in DOMAIN processes' /\ processes'[m] = processes[m]
       /\ last'.op = "boot"
          => \A n \in DOMAIN configFile :
                (/\ configFile[n].autostart
                 /\ configFile[n].user = "known"
                 /\ configFile[n].cmd # "missing")
                   => Spawned(n, children') # {}]_vars

\* the fields of a worker that a snapshot must leave alone
Observed(w) ==
    [status |-> w.status, exit_code |-> w.exit_code, pid |-> w.pid,
     retry_count |-> w.retry_count, restart_count |-> w.restart_count]

(* C30: a status or detail request changes no worker's status, exit code,  *)
(* pid, retry count or restart count, and two snapshots of the same        *)
(* program taken one right after the other are equal.                      *)
C30_SnapshotReadOnly ==
    [][/\ last'.op \in {"detail", "status"}
          => \A n \in DOMAIN processes :
                Observed(processes'[n]) = Observed(processes[n])
       /\ (/\ last.op \in {"detail", "status"}
           /\ last'.op = last.op
           /\ last'.name = last.name)
          => last'.data = last.data]_vars

\* the verb and the arguments a request line asks for
Request(tokens) ==
    IF tokens = << >> THEN NoMessage
    ELSE [command |-> <<tokens[1]>>,
          args |-> [i \in 1..(Len(tokens) - 1) |-> <<tokens[i + 1]>>]]

(* C21: a request made of one verb and its arguments reaches the           *)
(* dispatcher as that verb and that argument list, whether it came over    *)
(* HTTP or over the socket.                                                *)
C21_TransportParity ==
    (wire.via # "none" /\ Len(wire.req) = 1 /\ wire.req[1] # << >>)
       => wire.handed = Request(wire.req[1])

(* C22: the connection stays open, and the reply lines sent on it answer,  *)
(* one each and in order, the request lines read so far, however many      *)
(* lines a read returns.                                                   *)
C22_OneReplyPerLine ==
    LET read == Len(wire.lines) - Len(wire.inbox)
    IN  /\ wire.open
        /\ Len(wire.replies) = read
        /\ \A i \in 1..read : wire.replies[i] = Request(wire.lines[i])

(* C23: when the pid-file holds the pid of a live process the daemon exits *)
(* with code 1, leaves the pid-file as it is and starts no listener and no *)
(* child; otherwise it writes its pid to the pid-file, and it has done so  *)
(* before any listener exists.                                             *)
C23_PidFileArbitration ==
    [][/\ (daemon.phase = "main" /\ daemon'.phase # "main")
          => IF daemon.pidfile # NONE /\ PidAlive(daemon, daemon.pidfile)
             THEN /\ daemon'.phase = "exited" /\ daemon'.code = 1
                  /\ daemon'.pidfile = daemon.pidfile
                  /\ listeners' = {} /\ children' = << >>
             ELSE /\ daemon'.phase = "started"
                  /\ daemon'.pidfile = DaemonPid
                  /\ listeners' = {}
       /\ (daemon'.phase = "exited" /\ last'.op = "none")
          => listeners' = {} /\ children' = << >>
       /\ listeners' # {} => daemon'.pidfile = DaemonPid]_vars

C23_Witness ==
    /\ daemon.phase = "exited"
    /\ daemon.code = 1
    /\ daemon.pidfile = OtherPid
    /\ last.op = "none"

(* C24: when a termination signal reaches the daemon, every child alive at *)
(* that moment has been sent the stop signal of its program and is dead    *)
(* when the daemon exits, the pid-file is removed and the exit code is 0.  *)
C24_GracefulShutdown ==
    [][(last'.op = "signal" /\ \E p \in 1..Len(children) : children[p].alive)
          => /\ \A p \in 1..Len(children) :
                  children[p].alive
                     => /\ ~children'[p].alive
                        /\ \E i \in 1..Len(children'[p].signals) :
                              children'[p].signals[i] =
                                 Signal(configFile[children[p].owner]
                                           .stopsignal)
             /\ daemon'.pidfile = NONE
             /\ daemon'.code = 0]_vars

\* a thread is inside start() for program n
Starting(n) ==
    \E h \in Handlers : pc[h].op = "start" /\ pc[h].name = n

\* a thread has sent the stop signal of program n and stop() has not returned
Stopping(n) ==
    \E h \in Handlers :
       /\ pc[h].op = "stop" /\ pc[h].name = n
       /\ pc[h].step \in {"stopping", "wait", "waiting"}

(* C27: while a stop of a worker is between its signal and its return and  *)
(* no thread is starting the worker, a Monitor tick neither changes the    *)
(* worker's status nor spawns a child for it; and when the stop returns    *)
(* the worker is not active and has no live child.                         *)
C27_StopExcludesMonitor ==
    [][/\ last'.op = "tick"
          => \A n \in DOMAIN processes :
                (Stopping(n) /\ ~Starting(n))
                   => /\ processes'[n].status = processes[n].status
                      /\ Spawned(n, children') = Spawned(n, children)
       /\ (/\ last'.op = "stop" /\ last'.status = "success"
           /\ ~Starting(last'.name))
          => /\ processes'[last'.name].status \notin Active
             /\ LiveChildren(last'.name, children') = {}]_vars

(* C28: whatever the interleaving of the starts and stops of the threads   *)
(* and of the Monitor, a worker has at most one live child, and outside a  *)
(* start the pid it records is the pid of that child.                      *)
C28_OneChild ==
    \A n \in DOMAIN processes :
       /\ Cardinality(LiveChildren(n, children)) <= 1
       /\ ~Starting(n)
             => \A p \in LiveChildren(n, children) : processes[n].pid = p

(* C29: a snapshot taken while a thread is inside start() for the program  *)
(* shows the status and the pid the worker had when the start began, or    *)
(* status starting with the pid of the child the start has spawned.        *)
C29_SnapshotAtomic ==
    [][\A h \in Handlers :
          (/\ last'.op = "detail"
           /\ pc[h].op = "start"
           /\ pc[h].name = last'.name)
             => LET d == last'.data[last'.name]
                IN  \/ Shown(d) = pc[h].seen
                    \/ /\ d.status = "starting"
                       /\ d.pid = processes[last'.name].process.pid
                       /\ d.pid # NONE]_vars

\* startsecs has elapsed since the start_time of worker w
Elapsed(w) == now - w.start_time >= w.config.startsecs

(* C33: is_running on a worker whose child has exited records the exit     *)
(* code and sets status fatal when startsecs has not elapsed since         *)
(* start_time and exited otherwise; on a live child in status starting it  *)
(* sets running exactly when startsecs has elapsed.                        *)
C33_PollTransitions ==
    \A n \in DOMAIN processes :
       LET w == processes[n]
           r == is_running(w, children, now)
       IN  (w.process # NoProcess /\ w.pid # NONE)
              => IF ~children[w.process.pid].alive
                 THEN /\ ~r.ret
                      /\ r.w.exit_code = children[w.process.pid].code
                      /\ r.w.status = IF Elapsed(w) THEN "exited" ELSE "fatal"
                 ELSE /\ r.ret
                      /\ w.status = "starting"
                            => (r.w.status = "running" <=> Elapsed(w))

(* C33 amended: as C33, but a worker that is already fatal stays fatal     *)
(* when its dead child is polled again after startsecs has elapsed.        *)
C33_PollTransitionsSticky ==
    \A n \in DOMAIN processes :
       LET w == processes[n]
           r == is_running(w, children, now)
       IN  (w.process # NoProcess /\ w.pid # NONE)
              => IF ~children[w.process.pid].alive
                 THEN /\ ~r.ret
                      /\ r.w.exit_code = children[w.process.pid].code
                      /\ r.w.status = IF Elapsed(w) /\ w.status # "fatal"
                                      THEN "exited" ELSE "fatal"
                 ELSE /\ r.ret
                      /\ w.status = "starting"
                            => (r.w.status = "running" <=> Elapsed(w))

C33_Witness ==
    \E n \in DOMAIN processes :
       /\ processes[n].status = "fatal"
       /\ processes[n].process.returncode # NONE
       /\ processes[n].exit_code = processes[n].process.returncode
       /\ Elapsed(processes[n])

C35_FatalOnlyOnFailure ==
    \A n \in DOMAIN processes :
       LET w == processes[n]
       IN  w.status = "fatal"
              => \/ /\ w.process # NoProcess
                    /\ ~children[w.process.pid].alive
                    /\ children[w.process.pid].signals = << >>
                 \/ /\ w.process = NoProcess
                    /\ w.retry_count >= w.config.startretries

(* C36: stop_byuser becomes true only by a user stop of the worker (alone  *)
(* or as the first half of a user restart) and false only by a user start  *)
(* or restart of it; a Monitor tick and a snapshot leave it as it is.      *)
C36_StoppedByUserFlag ==
    [][\A n \in DOMAIN processes \cap DOMAIN processes' :
          /\ (~processes[n].stop_byuser /\ processes'[n].stop_byuser)
                => last'.op \in {"stop", "restart"} /\ last'.name = n
          /\ (processes[n].stop_byuser /\ ~processes'[n].stop_byuser)
                => last'.op \in {"start", "restart"} /\ last'.name = n]_vars

(* C37: right after a successful user start or restart retry_count is 1,   *)
(* the attempt of that command; a Monitor tick leaves retry_count or adds  *)
(* one to it.                                                              *)
C37_RetryCountReset ==
    [][\A n \in DOMAIN processes \cap DOMAIN processes' :
          /\ (/\ last'.op \in {"start", "restart"}
              /\ last'.name = n
              /\ last'.status = "success")
                => processes'[n].retry_count = 1
          /\ last'.op = "tick"
                => processes'[n].retry_count \in
                      {processes[n].retry_count,
                       processes[n].retry_count + 1}]_vars

(* C38: a successful user restart of a worker with a live child leaves the *)
(* old child dead and one child alive, stop_byuser false and restart_count *)
(* one higher; and no step lowers restart_count.                           *)
C38_RestartStopsThenStarts ==
    [][\A n \in DOMAIN processes \cap DOMAIN processes' :
          /\ processes'[n].restart_count >= processes[n].restart_count
          /\ (/\ last'.op = "restart"
              /\ last'.name = n
              /\ last'.status = "success"
              /\ HasLiveChild(processes[n], children))
                => /\ ~children'[processes[n].process.pid].alive
                   /\ Cardinality(LiveChildren(n, children')) = 1
                   /\ ~processes'[n].stop_byuser
                   /\ processes'[n].restart_count
                         = processes[n].restart_count + 1]_vars

(* C39: start() on a worker that is not running returns False with status  *)
(* fatal and no child spawned whenever the user is not in the password     *)
(* database or the spawn fails, and returns True only with status starting  *)
(* and the pid and start_time recorded.                                     *)
C39_StartOutcome ==
    up => \A n \in DOMAIN processes :
            LET w == processes[n]
                r == start(w, children, now)
            IN  /\ (/\ ~is_running(w, children, now).ret
                    /\ \/ w.config.user = "unknown"
                       \/ w.config.user = "known" /\ w.config.cmd = "missing")
                      => /\ ~r.ret
                         /\ r.w.status = "fatal"
                         /\ r.os = children
                /\ r.ret => /\ r.w.status = "starting"
                            /\ r.w.pid = Len(r.os)
                            /\ r.w.process = Popen(r.w.pid)
                            /\ r.os[r.w.pid].alive
                            /\ r.w.start_time = now

(* C40: when the Monitor has observed the death of a child that exited by  *)
(* itself and that the policy does not restart, a further tick or a status *)
(* query leaves the worker's status as that tick left it.                  *)
C40_StatusConverges ==
    [][\A n \in DOMAIN processes \cap DOMAIN processes' :
          (/\ last.op = "tick"
           /\ processes[n].process # NoProcess
           /\ processes[n].process.returncode # NONE
           /\ processes[n].config.autorestart # "always"
           /\ ~processes[n].stop_byuser
           /\ last'.op \in {"tick", "detail", "status"})
             => processes'[n].status = processes[n].status]_vars

----------------------------------------------------------------------------
(* Connections: the accept loops of the two listeners and their clients *)

\* the requests the clients send
ServeRequests == { <<"status">>, <<"stop", "a">>, <<"detail", "a">> }

\* a thread is serving the connection: it waits for the request (recv,
\* readline) or is inside process_command
InService(h) == pc[h].step \in {"recv", "command"}

\* a client connects: the connection waits in the backlog of the listener
ClientConnect(h) ==
    /\ up /\ listeners # {}
    /\ pc[h].op = "idle"
    /\ pc' = [pc EXCEPT ![h] = At("open", "", "queued", << >>)]
    /\ UNCHANGED <<engine, last, wire, daemon>>

(* accept.  The loop of SocketServer.start hands every connection to a new  *)
(* thread (handle_client) and accepts again at once.  HTTPServer is the     *)
(* single-threaded server: serve_forever runs the handler (do_GET) in its   *)
(* own thread and accepts the next connection when the handler has         *)
(* returned.                                                                *)
Accept(h) ==
    /\ up
    /\ pc[h].step = "queued"
    /\ \E via \in listeners :
         via.type = "http" => \A g \in Handlers \ {h} : ~InService(g)
    /\ pc' = [pc EXCEPT ![h].step = "recv"]
    /\ UNCHANGED <<engine, last, wire, daemon>>

\* the client writes its request on the open connection
ClientRequest(h, req) ==
    /\ pc[h].op = "open"
    /\ pc' = [pc EXCEPT ![h].op = req[1],
                        ![h].name = IF Len(req) > 1 THEN req[2] ELSE "",
                        ![h].seen = << >>]
    /\ UNCHANGED <<engine, last, wire, daemon>>

\* the read returns the request and the thread enters process_command
HandleBegin(h) ==
    /\ pc[h].step = "recv"
    /\ pc[h].op \notin {"idle", "open"}
    /\ pc' = [pc EXCEPT ![h].step = "command"]
    /\ UNCHANGED <<engine, last, wire, daemon>>

(* process_command returns and the reply is written.  handle_client loops  *)
(* to the next recv on the same connection; do_GET returns, the connection *)
(* is closed and serve_forever goes on.                                    *)
HandleEnd(h) ==
    /\ pc[h].step = "command"
    /\ \E via \in listeners :
         /\ process_command(<<pc[h].op>>,
                            IF pc[h].name = "" THEN << >>
                            ELSE << <<pc[h].name>> >>, via)
         /\ pc' = [pc EXCEPT ![h] =
                     IF via.type = "socket"
                     THEN At("open", "", "recv", <<last'.status>>)
                     ELSE At("idle", "", "", <<last'.status>>)]
    /\ UNCHANGED <<wire, daemon>>

\* the client closes a connection on which no request is pending
ClientClose(h) ==
    /\ pc[h].op = "open"
    /\ pc' = [pc EXCEPT ![h] = Idle]
    /\ UNCHANGED <<engine, last, wire, daemon>>

NextServe ==
    \/ ManagerInit /\ UNCHANGED outer
    \/ MonitorTick /\ UNCHANGED outer
    \/ \E h \in Handlers : ClientConnect(h)
    \/ \E h \in Handlers : Accept(h)
    \/ \E h \in Handlers, req \in ServeRequests : ClientRequest(h, req)
    \/ \E h \in Handlers : HandleBegin(h)
    \/ \E h \in Handlers : HandleEnd(h)
    \/ \E h \in Handlers : ClientClose(h)

(* The threads of the daemon are scheduled: a read or a command that can    *)
(* proceed does, and a connection in the backlog, which is a queue, is      *)
(* accepted when the accepting thread comes back to accept again and        *)
(* again.  Nothing makes a client send or close.                            *)
SpecServe ==
    /\ InitWire
    /\ [][NextServe]_vars
    /\ \A h \in Handlers :
         /\ SF_vars(Accept(h))
         /\ WF_vars(HandleBegin(h))
         /\ WF_vars(HandleEnd(h))

(* C31: on either transport the request a client has sent is answered,     *)
(* whatever the other client does: keep its connection open without        *)
(* sending, or have a command in progress.                                 *)
C31_ClientsDoNotBlock ==
    \A h \in Handlers :
       (pc[h].op \notin {"idle", "open"}) ~> (pc[h].seen # << >>)

----------------------------------------------------------------------------
(* Two daemons launched at the same time on one pid-file.  Here daemon     *)
(* holds, per instance, where its main() is and its exit code, and the     *)
(* pid-file both instances use.                                            *)

\* the pid an earlier daemon left in the pid-file
StalePid == 300

\* the two instances, named by the pids they write
Instances == {DaemonPid, OtherPid}

\* the pid-file opened for writing and not yet written: an empty file
EmptyFile == 0

\* os.getpgid(pid) succeeds
InstanceAlive(d, pid) ==
    IF pid \in Instances THEN d.phase[pid] # "exited" ELSE d.otherAlive

(* main, lines 338-345: no pid-file, or a pid-file whose pid is the pid of  *)
(* no process (os.getpgid raises OSError): go on; a pid-file with the pid   *)
(* of a process: sys.exit(1); an empty pid-file: int('') raises ValueError, *)
(* which nothing catches, and the interpreter exits with code 1.            *)
MainCheck(i) ==
    /\ daemon.phase[i] = "main"
    /\ IF daemon.pidfile = NONE
       THEN daemon' = [daemon EXCEPT !.phase[i] = "passed"]
       ELSE IF daemon.pidfile = EmptyFile
       THEN daemon' = [daemon EXCEPT !.phase[i] = "exited", !.code[i] = 1]
       ELSE IF InstanceAlive(daemon, daemon.pidfile)
       THEN daemon' = [daemon EXCEPT !.phase[i] = "exited", !.code[i] = 1]
       ELSE daemon' = [daemon EXCEPT !.phase[i] = "passed"]
    /\ UNCHANGED <<engine, last, wire, pc>>

(* main, lines 346-351: without -n the instance calls daemonize (two forks  *)
(* and setsid); i is the pid of the process that is left.                   *)
Daemonize(i) ==
    /\ daemon.phase[i] = "passed"
    /\ daemon' = [daemon EXCEPT !.phase[i] = "daemonized"]
    /\ UNCHANGED <<engine, last, wire, pc>>

\* main, line 354: open(..., 'w') creates or truncates the pid-file
MainOpen(i) ==
    /\ daemon.phase[i] \in {"passed", "daemonized"}
    /\ daemon' = [daemon EXCEPT !.phase[i] = "opened", !.pidfile = EmptyFile]
    /\ UNCHANGED <<engine, last, wire, pc>>

(* main, line 355 and on: the pid is written and reload_config builds and   *)
(* starts the server; a listener that cannot bind is reported by its       *)
(* thread and the instance keeps running.                                  *)
MainWrite(i) ==
    /\ daemon.phase[i] = "opened"
    /\ daemon' = [daemon EXCEPT !.phase[i] = "started", !.pidfile = i]
    /\ UNCHANGED <<engine, last, wire, pc>>

\* a termination signal reaches a running instance (see Terminate)
InstanceTerminate(i) ==
    /\ daemon.phase[i] = "started"
    /\ daemon' = [daemon EXCEPT !.phase[i] = "exited", !.code[i] = 1]
    /\ UNCHANGED <<engine, last, wire, pc>>

\* taskmasterd is launched again under the pid of an instance that exited
Launch(i) ==
    /\ daemon.phase[i] = "exited"
    /\ daemon' = [daemon EXCEPT !.phase[i] = "main", !.code[i] = NONE]
    /\ UNCHANGED <<engine, last, wire, pc>>

\* the process that has the pid of the stale pid-file exits
StaleExit ==
    /\ daemon.otherAlive
    /\ daemon' = [daemon EXCEPT !.otherAlive = FALSE]
    /\ UNCHANGED <<engine, last, wire, pc>>

\* both instances are launched; there may be a pid-file of an earlier daemon
InitStartup ==
    /\ configFile = [n \in {"a"} |-> Program("sleep", TRUE, "never", {0}, 1, 0)]
    /\ serverFile = [valid |-> TRUE, type |-> "socket", port |-> SocketPort]
    /\ listeners = {}
    /\ up = FALSE
    /\ processes = << >>
    /\ children = << >>
    /\ now = 0
    /\ last = Reply("none", "", TRUE)
    /\ userStopped = {}
    /\ wire = NoWire
    /\ daemon \in { [phase |-> [i \in Instances |-> "main"],
                     code |-> [i \in Instances |-> NONE],
                     pidfile |-> f, otherAlive |-> o] :
                      f \in {NONE, StalePid}, o \in BOOLEAN }
    /\ pc = [h \in Handlers |-> Idle]

NextStartup ==
    \/ \E i \in Instances : MainCheck(i)
    \/ \E i \in Instances : Daemonize(i)
    \/ \E i \in Instances : MainOpen(i)
    \/ \E i \in Instances : MainWrite(i)
    \/ \E i \in Instances : InstanceTerminate(i)
    \/ \E i \in Instances : Launch(i)
    \/ StaleExit

SpecStartup == InitStartup /\ [][NextStartup]_vars

\* the instances that have passed the pid-file check and have not exited
Passed(d) ==
    { i \in Instances :
        d.phase[i] \in {"passed", "daemonized", "opened", "started"} }

(* C32: of two daemons launched at the same time at most one is past the   *)
(* pid-file check at any moment, and while an instance runs the pid-file   *)
(* holds its pid.                                                          *)
C32_OneDaemon ==
    /\ Cardinality(Passed(daemon)) <= 1
    /\ \A i \in Instances : daemon.phase[i] = "started" => daemon.pidfile = i


=============================================================================
